---- MODULE Spec2Model ----
(***************************************************************************)
(* A model of go-http-middlewares: the OpenTracing client RoundTripper,    *)
(* the OpenTracing ServerHandler and the Prometheus ServerHandler.         *)
(*                                                                         *)
(* One behaviour follows one scenario, chosen in Init by comp:             *)
(*   "client"  - one RoundTripper.RoundTrip call,                          *)
(*   "server"  - one call of the tracing ServerHandler (through ServeHTTP, *)
(*               HandleHTTP or the handler built by Middleware),           *)
(*   "metrics" - NumProcs goroutines calling Serve of one Prometheus       *)
(*               ServerHandler concurrently.                               *)
(* The tracer, the wrapped transport/handler and the metrics vectors are   *)
(* external; the model records the calls the wrappers make on them.        *)
(***************************************************************************)
EXTENDS Integers, Sequences, FiniteSets, TLC

NIL == "nil"

\* Number of goroutines that call the Prometheus ServerHandler concurrently.
NumProcs == 2

Procs == 1..NumProcs

VARIABLES
    comp,      \* the scenario of this behaviour
    cfg,       \* tracing: the RoundTripper / ServerHandler and how it is entered
    req,       \* tracing: the local variable req / r
    w,         \* tracing: the local variable w (server), NIL for the client
    pc,        \* tracing: position inside RoundTrip / Serve
    spans,     \* tracing: spans started on the tracer, in order
    defers,    \* tracing: the stack of deferred calls of the running function
    log,       \* tracing: calls made on the collaborators, in order
    ret,       \* tracing: what the entry point returned
    sh,        \* metrics: the Prometheus ServerHandler
    registry,  \* metrics: registrations made on the Registerer, per metric
    mpc,       \* metrics: position of each goroutine
    mreq,      \* metrics: each goroutine's request, writer and handler result
    mlabels,   \* metrics: the local map labels of each goroutine's handle call
    mlog       \* metrics: per goroutine, the calls made so far, in order

tvars == <<cfg, req, w, pc, spans, defers, log, ret>>
mvars == <<sh, registry, mpc, mreq, mlabels, mlog>>
vars == <<comp, cfg, req, w, pc, spans, defers, log, ret,
          sh, registry, mpc, mreq, mlabels, mlog>>

(***************************************************************************)
(* opentracing: Option                                                     *)
(***************************************************************************)

\* The tracer opentracing.GlobalTracer() returns when none was registered.
GlobalTracer == "noop"

\* Option.Init: every nil function field gets its default; set fields are kept.
OptionInit(o) ==
    [o EXCEPT !.ComponentNameFunc = IF @ = NIL THEN "default" ELSE @,
              !.URLTagFunc        = IF @ = NIL THEN "default" ELSE @,
              !.SpanFilter        = IF @ = NIL THEN "default" ELSE @,
              !.SpanObserver      = IF @ = NIL THEN "default" ELSE @,
              !.OperationNameFunc = IF @ = NIL THEN "default" ELSE @]

\* Option.GetTracer
GetTracer(o) == IF o.Tracer # NIL THEN o.Tracer ELSE GlobalTracer

\* Option.GetComponentName; the default ComponentNameFunc returns "net/http".
GetComponentName(o, r) ==
    IF o.ComponentName = "" THEN "net/http" ELSE o.ComponentName

\* o.SpanFilter(r): the default returns false; "health" is a caller's filter
\* that filters the requests of one path.
SpanFilter(o, r) ==
    IF o.SpanFilter = "default" THEN FALSE ELSE r.path = "/health"

\* o.OperationNameFunc(r): fmt.Sprintf("HTTP %s %s", r.Method, r.URL.Path)
OperationNameFunc(o, r) == <<"HTTP", r.method, r.path>>

\* o.URLTagFunc(r.URL): u.String()
URLTagFunc(o, r) == r.path

(***************************************************************************)
(* The tracer, as the wrappers use it                                      *)
(***************************************************************************)

\* span.Context() of the span held by a request context.
SpanContext(s) == IF s = "S" THEN "ctxS" ELSE "ctx1"

\* tracer.Extract(HTTPHeaders, carrier): the context the headers carry; nil
\* (with an error, which Serve drops) when there is none, when the headers
\* are malformed, or when the tracer is the no-op tracer.
Extract(tracer, carrier) ==
    IF tracer # GlobalTracer /\ carrier = "ctxC" THEN carrier ELSE NIL

\* tracer.Inject(sp.Context(), HTTPHeaders, carrier): the headers afterwards.
Inject(tracer, sp, carrier) ==
    IF tracer # GlobalTracer THEN SpanContext(sp) ELSE carrier

\* The span StartSpan is asked for, with the tags the wrapper sets on it.
NewSpan(tracer, o, r, opts) ==
    [id |-> "sp1", tracer |-> tracer, op |-> OperationNameFunc(o, r),
     parent |-> opts.parent, kind |-> opts.kind,
     tags |-> [method |-> r.method, component |-> GetComponentName(o, r),
               url |-> URLTagFunc(o, r)],
     finished |-> 0]

\* The request of an event that carries none.
NoReq == [method |-> NIL, path |-> NIL, ctx |-> NIL, carrier |-> NIL, hooked |-> FALSE]

Event(ev, target, ww, r, sp) ==
    [ev |-> ev, target |-> target, w |-> ww, r |-> r, sp |-> sp]

\* Running the deferred call on top of the stack.
RunDeferred(d) ==
    /\ defers' = SubSeq(defers, 1, Len(defers) - 1)
    /\ IF d.fn = "Finish"
       THEN /\ spans' = [spans EXCEPT ![1].finished = @ + 1]
            /\ log' = Append(log, Event("Finish", NIL, NIL, NoReq, d.sp))
       ELSE /\ spans' = spans
            /\ log' = Append(log, Event("End", NIL, d.w, d.r, d.sp))

(***************************************************************************)
(* opentracing: RoundTripper                                               *)
(***************************************************************************)

\* NewRoundTripper
NewRoundTripper(rt, o) == [RoundTripper |-> rt, Option |-> OptionInit(o)]

\* RoundTripper.roundTrip: the transport the request is sent on.
roundTrip(rt) ==
    IF rt.RoundTripper = NIL THEN "DefaultTransport" ELSE rt.RoundTripper

\* The StartSpanOptions RoundTrip builds from the request context.
ClientSpanOpts(ctx) ==
    IF ctx # NIL
    THEN [parent |-> SpanContext(ctx), kind |-> NIL]
    ELSE [parent |-> NIL, kind |-> "client"]

\* What a transport can produce.
TransportResults ==
    {[resp |-> "resp", err |-> NIL], [resp |-> NIL, err |-> "err"]}

\* A RoundTrip that drops the transport's error.
RoundTripResultSwallow(res) == [res EXCEPT !.err = NIL]

\* What RoundTrip returns of the (response, error) the transport produced:
\* both return statements hand it on as it is.
RoundTripResult(res) == res

\* RoundTrip, the filter branch: if rt.SpanFilter(req) { return rt.roundTrip(req) }
ClientFiltered ==
    /\ comp = "client" /\ pc = "entry"
    /\ SpanFilter(cfg.sh.Option, req)
    /\ \E res \in TransportResults :
         /\ log' = log \o <<Event("Call", roundTrip(cfg.sh), NIL, req, NIL),
                            Event("Return", roundTrip(cfg.sh), NIL, req, NIL)>>
         /\ cfg' = [cfg EXCEPT !.produced = res]
         /\ ret' = RoundTripResult(res)
    /\ pc' = "done"
    /\ UNCHANGED <<comp, req, w, spans, defers>> /\ UNCHANGED mvars

\* RoundTrip: the span is started, tagged, observed, and its Finish deferred.
ClientStartSpan ==
    /\ comp = "client" /\ pc = "entry"
    /\ ~SpanFilter(cfg.sh.Option, req)
    /\ LET tracer == GetTracer(cfg.sh.Option)
           sp == NewSpan(tracer, cfg.sh.Option, req, ClientSpanOpts(req.ctx))
       IN /\ spans' = Append(spans, sp)
          /\ log' = log \o <<Event("StartSpan", tracer, NIL, req, sp.id),
                             Event("Observe", NIL, NIL, req, sp.id)>>
          /\ defers' = Append(defers, [fn |-> "Finish", w |-> NIL, r |-> req, sp |-> sp.id])
    /\ pc' = "inject"
    /\ UNCHANGED <<comp, cfg, req, w, ret>> /\ UNCHANGED mvars

\* RoundTrip: tracer.Inject writes the span context into req.Header.
ClientInject ==
    /\ comp = "client" /\ pc = "inject"
    /\ LET tracer == GetTracer(cfg.sh.Option)
       IN /\ req' = [req EXCEPT !.carrier = Inject(tracer, spans[1].id, @)]
          /\ log' = Append(log, Event("Inject", tracer, NIL, req', spans[1].id))
    /\ pc' = "delegate"
    /\ UNCHANGED <<comp, cfg, w, spans, defers, ret>> /\ UNCHANGED mvars

\* RoundTrip: return rt.roundTrip(req.WithContext(ContextWithSpan(ctx, sp)))
ClientDelegate ==
    /\ comp = "client" /\ pc = "delegate"
    /\ \E res \in TransportResults :
         LET sent == [req EXCEPT !.ctx = spans[1].id]
         IN /\ log' = log \o <<Event("Call", roundTrip(cfg.sh), NIL, sent, NIL),
                               Event("Return", roundTrip(cfg.sh), NIL, sent, NIL)>>
            /\ cfg' = [cfg EXCEPT !.produced = res]
            /\ ret' = RoundTripResult(res)
    /\ pc' = "deferred"
    /\ UNCHANGED <<comp, req, w, spans, defers>> /\ UNCHANGED mvars

\* The deferred calls run, last deferred first, when the function leaves.
Deferred ==
    /\ comp \in {"client", "server"} /\ pc = "deferred"
    /\ defers # <<>>
    /\ RunDeferred(defers[Len(defers)])
    /\ pc' = IF Len(defers) = 1 THEN "done" ELSE "deferred"
    /\ UNCHANGED <<comp, cfg, req, w, ret>> /\ UNCHANGED mvars

(***************************************************************************)
(* opentracing: ServerHandler                                              *)
(***************************************************************************)

\* NewServerHandler, with the hooks the caller sets on the result.
NewServerHandler(handler, o, start, end) ==
    [Handler |-> handler, Option |-> OptionInit(o), Start |-> start, End |-> end]

\* The handler Serve is given: ServeHTTP and HandleHTTP pass sh.Handler, the
\* handler built by Middleware(sh)(wrappedNext) passes wrappedNext.
GivenHandler(s, entry) ==
    IF entry = "Middleware" THEN "wrappedNext" ELSE s.Handler

\* The handler Serve(h, w, r) serves the request with: sh.Handler.ServeHTTP(w, r)
ServeTarget(s, h) == s.Handler

\* sh.Start(w, r): the hook wraps the writer and derives a request.
StartHook(ww, r) == <<"wrapped", [r EXCEPT !.hooked = TRUE]>>

\* A server option that forgets the extracted context.
RPCServerOptionRoot(sc) == [parent |-> NIL, kind |-> "server"]

\* ext.RPCServerOption(sc): child of sc when sc is not nil, kind server.
RPCServerOption(sc) == [parent |-> sc, kind |-> "server"]

\* A Serve that defers only the End hook and never finishes the span.
ServerDefersNoFinish(s, ww, r, sp) ==
    IF s.End # NIL THEN <<[fn |-> "End", w |-> ww, r |-> r, sp |-> sp]>> ELSE <<>>

\* A Serve that defers the End hook before sp.Finish().
ServerDefersEndFirst(s, ww, r, sp) ==
    (IF s.End # NIL THEN <<[fn |-> "End", w |-> ww, r |-> r, sp |-> sp]>> ELSE <<>>)
    \o <<[fn |-> "Finish", w |-> NIL, r |-> r, sp |-> sp]>>

\* The calls deferred by Serve, in the order they are deferred.
ServerDefers(s, ww, r, sp) ==
    <<[fn |-> "Finish", w |-> NIL, r |-> r, sp |-> sp]>>
    \o (IF s.End # NIL THEN <<[fn |-> "End", w |-> ww, r |-> r, sp |-> sp]>> ELSE <<>>)

\* How a call of the handler can end; calling a nil handler panics.
HandlerOutcomes(target) == IF target = NIL THEN {"panic"} ELSE {"ok", "panic"}

\* The calls a delegation makes: none reaches a nil handler.
Delegation(target, ww, r) ==
    IF target = NIL THEN <<>>
    ELSE <<Event("Call", target, ww, r, NIL), Event("Return", target, ww, r, NIL)>>

\* Serve, the filter branch: sh.Handler.ServeHTTP(w, r); return
ServerFiltered ==
    /\ comp = "server" /\ pc = "entry"
    /\ SpanFilter(cfg.sh.Option, req)
    /\ LET target == ServeTarget(cfg.sh, cfg.h)
       IN /\ log' = log \o Delegation(target, w, req)
          /\ \E out \in HandlerOutcomes(target) :
               ret' = [resp |-> out, err |-> NIL]
    /\ pc' = "done"
    /\ UNCHANGED <<comp, cfg, req, w, spans, defers>> /\ UNCHANGED mvars

\* Serve: if sh.Start != nil { w, r = sh.Start(w, r) }
ServerStart ==
    /\ comp = "server" /\ pc = "entry"
    /\ ~SpanFilter(cfg.sh.Option, req)
    /\ IF cfg.sh.Start # NIL
       THEN /\ w' = StartHook(w, req)[1]
            /\ req' = StartHook(w, req)[2]
            /\ log' = Append(log, Event("Start", NIL, w, req, NIL))
       ELSE UNCHANGED <<w, req, log>>
    /\ pc' = "span"
    /\ UNCHANGED <<comp, cfg, spans, defers, ret>> /\ UNCHANGED mvars

\* Serve: Extract, StartSpan, the three tags and the observer.
ServerStartSpan ==
    /\ comp = "server" /\ pc = "span"
    /\ LET tracer == GetTracer(cfg.sh.Option)
           sc == Extract(tracer, req.carrier)
           sp == NewSpan(tracer, cfg.sh.Option, req, RPCServerOption(sc))
       IN /\ spans' = Append(spans, sp)
          /\ log' = log \o <<Event("StartSpan", tracer, w, req, sp.id),
                             Event("Observe", NIL, w, req, sp.id)>>
    /\ pc' = "attach"
    /\ UNCHANGED <<comp, cfg, req, w, defers, ret>> /\ UNCHANGED mvars

\* Serve: r = r.WithContext(ContextWithSpan(..., sp)); defer sp.Finish();
\* if sh.End != nil { defer sh.End(w, r, sp) }
ServerAttach ==
    /\ comp = "server" /\ pc = "attach"
    /\ req' = [req EXCEPT !.ctx = spans[1].id]
    /\ defers' = ServerDefers(cfg.sh, w, req', spans[1].id)
    /\ log' = Append(log, Event("Attach", NIL, w, req', spans[1].id))
    /\ pc' = "delegate"
    /\ UNCHANGED <<comp, cfg, w, spans, ret>> /\ UNCHANGED mvars

\* Serve: sh.Handler.ServeHTTP(w, r)
ServerDelegate ==
    /\ comp = "server" /\ pc = "delegate"
    /\ LET target == ServeTarget(cfg.sh, cfg.h)
       IN /\ log' = log \o Delegation(target, w, req)
          /\ \E out \in HandlerOutcomes(target) :
               ret' = [resp |-> out, err |-> NIL]
    /\ pc' = "deferred"
    /\ UNCHANGED <<comp, cfg, req, w, spans, defers>> /\ UNCHANGED mvars

(***************************************************************************)
(* prometheus: ServerHandler                                               *)
(***************************************************************************)

\* A vector that was not created yet (a nil *CounterVec / *HistogramVec).
NoVec == [made |-> FALSE, labels |-> <<>>]

\* NewServerHandler: Option{Method: true, Code: true}
PromNewServerHandler(handler) ==
    [Handler |-> handler,
     Option |-> [Path |-> FALSE, Code |-> TRUE, Method |-> TRUE],
     done |-> 0, m |-> -1,
     labels |-> <<>>, labelsMade |-> FALSE,
     requestsTotal |-> NoVec, requestDurations |-> NoVec]

\* Middleware: sh := NewServerHandler(nil); if option != nil { sh.Option = *option }
PromMiddleware(option) ==
    LET s == PromNewServerHandler(NIL)
    IN IF ~option.isNil
       THEN [s EXCEPT !.Option = [Path |-> option.Path, Code |-> option.Code,
                                  Method |-> option.Method]]
       ELSE s

\* _init2: the label list, in the order method, path, code.
InitLabels(o) ==
    (IF o.Method THEN <<"method">> ELSE <<>>)
    \o (IF o.Path THEN <<"path">> ELSE <<>>)
    \o (IF o.Code THEN <<"code">> ELSE <<>>)

\* fmt.Sprint(code)
Sprint(code) == IF code = 200 THEN "200" ELSE IF code = 404 THEN "404" ELSE "other"

\* handle: 200 unless the writer is a ResponseWriter with StatusCode().
StatusCode(wkind) == IF wkind = "status" THEN 404 ELSE 200

\* handle: the value the switch stores for one label name.
LabelValue(name, r, code) ==
    CASE name = "code" -> Sprint(code)
      [] name = "path" -> r.path
      [] name = "method" -> r.method
      [] OTHER -> NIL

\* A handle whose switch has no case for "code".
HandleLabelsNoCode(labels, r, code) ==
    {<<labels[i], LabelValue(labels[i], r, code)>> :
        i \in {j \in 1..Len(labels) : labels[j] # "code"}}

\* handle: the map built by the loop over sh.labels, as a set of pairs.
HandleLabels(labels, r, code) ==
    {<<labels[i], LabelValue(labels[i], r, code)>> : i \in 1..Len(labels)}

\* once.Do, fast path: doSlow is entered when done is still 0.
OnceFastMiss(done) == done = 0

\* An _init that runs _init2 whenever it gets the mutex.
OnceSlowRunsAlways(done) == TRUE

\* once.doSlow, under the mutex: f runs when done is still 0.
OnceSlowRuns(done) == done = 0

\* The handler Serve(h, w, r) is given.
PromGivenHandler(via, s) ==
    IF via = "NewServerHandler" THEN s.Handler ELSE "wrappedNext"

\* What the handler can return: an error only through HandleHTTP.
HandlerErrors(hkind) == IF hkind = "Handler" THEN {NIL, "err"} ELSE {NIL}

MEvent(ev, labels) == [ev |-> ev, labels |-> labels]

\* sh._init(): once.Do(sh._init2), the load of done on the fast path.  The
\* caller is a goroutine entering Serve, or Middleware (goroutine 0).
OnceDo(p) ==
    /\ comp = "metrics"
    /\ \/ /\ p \in Procs /\ mpc[p] = "idle" /\ mpc[0] = "ctor_done"
          /\ \E e \in HandlerErrors(cfg.hkind) :
               mreq' = [mreq EXCEPT ![p].err = e]
       \/ /\ p = 0 /\ mpc[p] = "ctor"
          /\ mreq' = mreq
    /\ mpc' = [mpc EXCEPT ![p] = IF OnceFastMiss(sh.done) THEN "lock"
                                 ELSE IF p = 0 THEN "ctor_done" ELSE "call"]
    /\ UNCHANGED <<comp, sh, registry, mlabels, mlog>> /\ UNCHANGED tvars

\* once.doSlow: o.m.Lock(), then the second load of done.
OnceLock(p) ==
    /\ comp = "metrics" /\ mpc[p] = "lock"
    /\ sh.m = -1
    /\ sh' = [sh EXCEPT !.m = p]
    /\ mpc' = [mpc EXCEPT ![p] = IF OnceSlowRuns(sh.done) THEN "init_labels"
                                 ELSE "unlock"]
    /\ UNCHANGED <<comp, registry, mreq, mlabels, mlog>> /\ UNCHANGED tvars

\* _init2: sh.labels is built from the flags.
InitLabelList(p) ==
    /\ comp = "metrics" /\ mpc[p] = "init_labels"
    /\ sh' = [sh EXCEPT !.labels = InitLabels(sh.Option), !.labelsMade = TRUE]
    /\ mpc' = [mpc EXCEPT ![p] = "init_counter"]
    /\ UNCHANGED <<comp, registry, mreq, mlabels, mlog>> /\ UNCHANGED tvars

\* _init2: factory.NewCounterVec(..., sh.labels) creates and registers.
InitCounter(p) ==
    /\ comp = "metrics" /\ mpc[p] = "init_counter"
    /\ sh' = [sh EXCEPT !.requestsTotal = [made |-> TRUE, labels |-> sh.labels]]
    /\ registry' = [registry EXCEPT !.counter = @ + 1]
    /\ mpc' = [mpc EXCEPT ![p] = "init_hist"]
    /\ UNCHANGED <<comp, mreq, mlabels, mlog>> /\ UNCHANGED tvars

\* _init2: factory.NewHistogramVec(..., sh.labels) creates and registers.
InitHistogram(p) ==
    /\ comp = "metrics" /\ mpc[p] = "init_hist"
    /\ sh' = [sh EXCEPT !.requestDurations = [made |-> TRUE, labels |-> sh.labels]]
    /\ registry' = [registry EXCEPT !.histogram = @ + 1]
    /\ mpc' = [mpc EXCEPT ![p] = "store"]
    /\ UNCHANGED <<comp, mreq, mlabels, mlog>> /\ UNCHANGED tvars

\* once.doSlow: the deferred o.done.Store(1).
OnceStore(p) ==
    /\ comp = "metrics" /\ mpc[p] = "store"
    /\ sh' = [sh EXCEPT !.done = 1]
    /\ mpc' = [mpc EXCEPT ![p] = "unlock"]
    /\ UNCHANGED <<comp, registry, mreq, mlabels, mlog>> /\ UNCHANGED tvars

\* once.doSlow: the deferred o.m.Unlock(); _init returns.
OnceUnlock(p) ==
    /\ comp = "metrics" /\ mpc[p] = "unlock"
    /\ sh' = [sh EXCEPT !.m = -1]
    /\ mpc' = [mpc EXCEPT ![p] = IF p = 0 THEN "ctor_done" ELSE "call"]
    /\ UNCHANGED <<comp, registry, mreq, mlabels, mlog>> /\ UNCHANGED tvars

\* Serve: defer sh.handle(w, r, time.Now()); the handler is called and returns.
PromDelegate(p) ==
    /\ comp = "metrics" /\ p \in Procs /\ mpc[p] = "call"
    /\ mlog' = [mlog EXCEPT ![p] = @ \o <<MEvent("Call", {}), MEvent("Return", {})>>]
    /\ mreq' = [mreq EXCEPT ![p].ret = mreq[p].err]
    /\ mpc' = [mpc EXCEPT ![p] = "handle"]
    /\ UNCHANGED <<comp, sh, registry, mlabels>> /\ UNCHANGED tvars

\* handle: the status code and the label map.
Handle(p) ==
    /\ comp = "metrics" /\ p \in Procs /\ mpc[p] = "handle"
    /\ mlabels' = [mlabels EXCEPT ![p] =
                     HandleLabels(sh.labels, mreq[p], StatusCode(cfg.wkind))]
    /\ mpc' = [mpc EXCEPT ![p] = "inc"]
    /\ UNCHANGED <<comp, sh, registry, mreq, mlog>> /\ UNCHANGED tvars

\* handle: sh.requestsTotal.With(labels).Inc()
HandleInc(p) ==
    /\ comp = "metrics" /\ p \in Procs /\ mpc[p] = "inc"
    /\ mlog' = [mlog EXCEPT ![p] = Append(@, MEvent("Inc", mlabels[p]))]
    /\ mpc' = [mpc EXCEPT ![p] = "observe"]
    /\ UNCHANGED <<comp, sh, registry, mreq, mlabels>> /\ UNCHANGED tvars

\* handle: sh.requestDurations.With(labels).Observe(...); Serve returns err.
HandleObserve(p) ==
    /\ comp = "metrics" /\ p \in Procs /\ mpc[p] = "observe"
    /\ mlog' = [mlog EXCEPT ![p] = Append(@, MEvent("Observe", mlabels[p]))]
    /\ mpc' = [mpc EXCEPT ![p] = "ret"]
    /\ UNCHANGED <<comp, sh, registry, mreq, mlabels>> /\ UNCHANGED tvars

(***************************************************************************)
(* The scenarios                                                           *)
(***************************************************************************)

NoResult == [resp |-> NIL, err |-> NIL]

\* The Option values a caller passes: the function fields left nil.
TracingOptions ==
    [Tracer : {NIL, "mock"}, ComponentName : {"", "svc"},
     ComponentNameFunc : {NIL}, URLTagFunc : {NIL}, SpanFilter : {NIL, "health"},
     SpanObserver : {NIL}, OperationNameFunc : {NIL}]

Requests(ctxs, carriers) ==
    [method : {"GET", "POST"}, path : {"/widgets/42", "/health"}, ctx : ctxs,
     carrier : carriers, hooked : {FALSE}]

\* The ways the tracing ServerHandler is built and entered.  Through ServeHTTP
\* and HandleHTTP the wrapped handler is sh.Handler, which the caller set.
ServerEntries ==
    {<<"ServeHTTP", "H0">>, <<"HandleHTTP", "H0">>,
     <<"Middleware", "H0">>, <<"Middleware", NIL>>}

\* Middleware(sh): sh.Init() before the middleware is returned.
MiddlewareInit(s, entry) ==
    IF entry = "Middleware" THEN [s EXCEPT !.Option = OptionInit(@)] ELSE s

\* The ways the Prometheus ServerHandler is built, and the label flags the
\* caller chose (chose = FALSE: the caller did not touch Path/Code/Method).
Flags == [Path : BOOLEAN, Code : BOOLEAN, Method : BOOLEAN]

PromSetups ==
    {[via |-> "NewServerHandler", chose |-> FALSE, isNil |-> TRUE,
      Path |-> FALSE, Code |-> FALSE, Method |-> FALSE],
     [via |-> "Middleware", chose |-> FALSE, isNil |-> TRUE,
      Path |-> FALSE, Code |-> FALSE, Method |-> FALSE],
     [via |-> "Middleware", chose |-> FALSE, isNil |-> FALSE,
      Path |-> FALSE, Code |-> FALSE, Method |-> FALSE]}
    \cup {[via |-> v, chose |-> TRUE, isNil |-> FALSE,
           Path |-> f.Path, Code |-> f.Code, Method |-> f.Method] :
            v \in {"NewServerHandler", "Middleware"}, f \in Flags}

\* The handler after construction: NewServerHandler(h), with the flags the
\* caller then set on it, or the handler Middleware(option) builds.
PromConstruct(setup) ==
    IF setup.via = "Middleware" THEN PromMiddleware(setup)
    ELSE IF setup.chose
         THEN [PromNewServerHandler("H0") EXCEPT
                 !.Option = [Path |-> setup.Path, Code |-> setup.Code,
                             Method |-> setup.Method]]
         ELSE PromNewServerHandler("H0")

MethodOf(p) == IF p % 2 = 1 THEN "GET" ELSE "POST"

TracingIdle ==
    /\ req = NoReq /\ w = NIL /\ pc = "off" /\ spans = <<>> /\ defers = <<>>
    /\ log = <<>> /\ ret = NoResult

MetricsIdle ==
    /\ sh = PromNewServerHandler(NIL)
    /\ registry = [counter |-> 0, histogram |-> 0]
    /\ mpc = [p \in 0..NumProcs |-> "off"]
    /\ mreq = [p \in Procs |-> [method |-> NIL, path |-> NIL, err |-> NIL, ret |-> NIL]]
    /\ mlabels = [p \in Procs |-> {}]
    /\ mlog = [p \in Procs |-> <<>>]

InitClient ==
    /\ comp = "client"
    /\ \E rt \in {NIL, "T1"}, o \in TracingOptions :
         cfg = [sh |-> NewRoundTripper(rt, o), entry |-> "RoundTrip", h |-> NIL,
                produced |-> NoResult]
    /\ req \in Requests({NIL, "S"}, {"none"})
    /\ w = NIL /\ pc = "entry" /\ spans = <<>> /\ defers = <<>>
    /\ log = <<>> /\ ret = NoResult
    /\ MetricsIdle

InitServer ==
    /\ comp = "server"
    /\ \E e \in ServerEntries, o \in TracingOptions,
          start \in {NIL, "set"}, end \in {NIL, "set"} :
         LET s == MiddlewareInit(NewServerHandler(e[2], o, start, end), e[1])
         IN cfg = [sh |-> s, entry |-> e[1], h |-> GivenHandler(s, e[1]),
                   produced |-> NoResult]
    /\ req \in Requests({NIL}, {"none", "malformed", "ctxC"})
    /\ w = "w" /\ pc = "entry" /\ spans = <<>> /\ defers = <<>>
    /\ log = <<>> /\ ret = NoResult
    /\ MetricsIdle

InitMetrics ==
    /\ comp = "metrics"
    /\ \E setup \in PromSetups, hk \in {"Handler", "plain"}, wk \in {"plain", "status"} :
         /\ cfg = [setup |-> setup, hkind |-> hk, wkind |-> wk,
                   h |-> PromGivenHandler(setup.via, PromConstruct(setup))]
         /\ sh = PromConstruct(setup)
         /\ mpc = [p \in 0..NumProcs |->
                     IF p = 0
                     THEN IF setup.via = "Middleware" THEN "ctor" ELSE "ctor_done"
                     ELSE "idle"]
    /\ registry = [counter |-> 0, histogram |-> 0]
    /\ mreq = [p \in Procs |-> [method |-> MethodOf(p), path |-> "/widgets/42",
                                 err |-> NIL, ret |-> NIL]]
    /\ mlabels = [p \in Procs |-> {}]
    /\ mlog = [p \in Procs |-> <<>>]
    /\ TracingIdle

Init == InitClient \/ InitServer \/ InitMetrics

Next ==
    \/ ClientFiltered
    \/ ClientStartSpan
    \/ ClientInject
    \/ ClientDelegate
    \/ Deferred
    \/ ServerFiltered
    \/ ServerStart
    \/ ServerStartSpan
    \/ ServerAttach
    \/ ServerDelegate
    \/ \E p \in 0..NumProcs :
         \/ OnceDo(p)
         \/ OnceLock(p)
         \/ InitLabelList(p)
         \/ InitCounter(p)
         \/ InitHistogram(p)
         \/ OnceStore(p)
         \/ OnceUnlock(p)
         \/ PromDelegate(p)
         \/ Handle(p)
         \/ HandleInc(p)
         \/ HandleObserve(p)

Spec == Init /\ [][Next]_vars

(***************************************************************************)
(* Properties                                                              *)
(***************************************************************************)

Tracing == comp \in {"client", "server"}

Filtered == SpanFilter(cfg.sh.Option, req)

Indices(ev) == {i \in DOMAIN log : log[i].ev = ev}

Count(ev) == Cardinality(Indices(ev))

EventNames == [i \in DOMAIN log |-> log[i].ev]

IsPrefix(a, b) == Len(a) <= Len(b) /\ a = SubSeq(b, 1, Len(a))

\* C1: every span started by RoundTrip or Serve is finished exactly once, the
\* finish coming after the delegated call returned, whatever its outcome; a
\* non-filtered request that has left the wrapper has one finished span.
C1_FinishedExactlyOnce ==
    Tracing =>
      /\ \A k \in DOMAIN spans : spans[k].finished <= 1
      /\ Count("Finish") <= 1
      /\ \A i \in Indices("Finish") :
           /\ \A j \in Indices("Call") \cup Indices("Return") : j < i
           /\ pc \in {"deferred", "done"}
      /\ (pc = "done" /\ ~Filtered) =>
           /\ Len(spans) = 1
           /\ spans[1].finished = 1
           /\ Count("Finish") = 1

\* C1 witness: a transport error came back through RoundTrip and the span
\* was finished once.
C1_Witness ==
    /\ comp = "client" /\ pc = "done" /\ ret.err = "err"
    /\ Len(spans) = 1 /\ spans[1].finished = 1

\* C2: for a filtered request no span is started, nothing is injected or
\* attached, no hook runs, and a wrapped transport/handler is invoked exactly
\* once with the unmodified request and writer.
C2_FilterBypass ==
    (Tracing /\ Filtered /\ pc = "done") =>
      /\ spans = <<>>
      /\ \A e \in {"StartSpan", "Inject", "Attach", "Start", "End", "Finish"} :
           Count(e) = 0
      /\ req.carrier \in {"none", "malformed", "ctxC"} /\ req.ctx \in {NIL, "S"}
      /\ Count("Call") = 1
      /\ \A i \in Indices("Call") :
           /\ log[i].r = req /\ log[i].r.hooked = FALSE
           /\ log[i].w = (IF comp = "server" THEN "w" ELSE NIL)

C4_ClientObservational ==
    comp = "client" =>
      /\ \A i \in Indices("Call") :
           log[i].target = (IF cfg.sh.RoundTripper = NIL THEN "DefaultTransport"
                            ELSE cfg.sh.RoundTripper)
      /\ pc = "done" => (ret = cfg.produced /\ Count("Call") = 1)

\* C4 witness: the default transport failed on the traced path and RoundTrip
\* returned that error.
C4_Witness ==
    /\ comp = "client" /\ pc = "done" /\ ~Filtered
    /\ cfg.sh.RoundTripper = NIL /\ cfg.produced.err = "err" /\ ret.err = "err"

\* C5: Serve(h, w, r) invokes the given handler h, exactly once, on every
\* path (ServeHTTP, HandleHTTP, Middleware), filtered or not.
C5_ServeUsesGivenHandler ==
    comp = "server" =>
      /\ \A i \in Indices("Call") : log[i].target = cfg.h
      /\ pc = "done" => Count("Call") = 1

\* C9: while tracing is disabled (the request is filtered, or no tracer is
\* configured) neither hook is invoked and the handler gets the original
\* writer and request.
C9_HooksIgnoredWhenDisabled ==
    (comp = "server" /\ (Filtered \/ cfg.sh.Option.Tracer = NIL)) =>
      /\ Count("Start") = 0 /\ Count("End") = 0
      /\ \A i \in Indices("Call") : log[i].w = "w" /\ log[i].r.hooked = FALSE

\* The events of a traced request with both hooks, with and without a
\* handler to call.
ServeOrder ==
    <<"Start", "StartSpan", "Observe", "Attach", "Call", "Return", "End", "Finish">>

ServeOrderNoCall == <<"Start", "StartSpan", "Observe", "Attach", "End", "Finish">>

MIndices(p, ev) == {i \in DOMAIN mlog[p] : mlog[p][i].ev = ev}

AfterInit == {"call", "handle", "inc", "observe", "ret", "ctor_done"}

\* C6: under every interleaving the two vectors are created and registered
\* at most once, and a goroutine that is past _init (so before any increment
\* or observation) sees the label list and both vectors initialized, each
\* registered exactly once.
C6_InitOnce ==
    comp = "metrics" =>
      /\ registry.counter <= 1 /\ registry.histogram <= 1
      /\ \A p \in Procs :
           (mpc[p] \in AfterInit \ {"ctor_done"} \/ MIndices(p, "Inc") # {}) =>
             /\ sh.labelsMade /\ sh.requestsTotal.made /\ sh.requestDurations.made
             /\ sh.requestsTotal.labels = sh.labels
             /\ sh.requestDurations.labels = sh.labels
             /\ registry.counter = 1 /\ registry.histogram = 1
             /\ sh.done = 1

\* C6 witness: one goroutine waits for the mutex of the Once while another,
\* having run _init2, is about to store done.
C6_Witness ==
    /\ comp = "metrics"
    /\ \E p, q \in Procs :
         /\ p # q /\ mpc[p] = "lock" /\ mpc[q] = "store"
         /\ registry.counter = 1 /\ registry.histogram = 1

\* The labels the flags of the handler select.
FlagSet(o) ==
    {n \in {"method", "path", "code"} :
       \/ n = "method" /\ o.Method
       \/ n = "path" /\ o.Path
       \/ n = "code" /\ o.Code}

Keys(m) == {kv[1] : kv \in m}

\* C7: a served request makes one counter increment and one histogram
\* observation, both after the handler returned, with the same label tuple,
\* whose keys are the configured labels; Serve returns the handler's error.
C7_OneIncOneObserve ==
    comp = "metrics" =>
      \A p \in Procs :
        /\ Cardinality(MIndices(p, "Inc")) <= 1
        /\ Cardinality(MIndices(p, "Observe")) <= 1
        /\ \A i \in MIndices(p, "Inc") \cup MIndices(p, "Observe") :
             /\ \E j \in MIndices(p, "Return") : j < i
             /\ Keys(mlog[p][i].labels) = FlagSet(sh.Option)
             /\ Cardinality(mlog[p][i].labels) = Cardinality(FlagSet(sh.Option))
        /\ mpc[p] = "ret" =>
             /\ Cardinality(MIndices(p, "Inc")) = 1
             /\ Cardinality(MIndices(p, "Observe")) = 1
             /\ \A i \in MIndices(p, "Inc"), j \in MIndices(p, "Observe") :
                  mlog[p][i].labels = mlog[p][j].labels
             /\ mreq[p].ret = mreq[p].err

\* C7 witness: a request whose handler returned an error was counted and
\* observed with the labels method and code of a 404 response.
C7_Witness ==
    /\ comp = "metrics"
    /\ \E p \in Procs :
         /\ mpc[p] = "ret" /\ mreq[p].ret = "err"
         /\ mlog[p][Len(mlog[p])].labels = {<<"method", "GET">>, <<"code", "404">>}

\* C8: when the caller did not choose the label flags, the vectors are
\* registered with exactly the labels method and code.
C8_DefaultLabels ==
    (comp = "metrics" /\ ~cfg.setup.chose) =>
      /\ sh.labelsMade => sh.labels = <<"method", "code">>
      /\ sh.requestsTotal.made => sh.requestsTotal.labels = <<"method", "code">>
      /\ sh.requestDurations.made => sh.requestDurations.labels = <<"method", "code">>

====
